---- MODULE Spec2Model ----
(***************************************************************************)
(* RSS2CAL (4SP_RSSCAL_v3.py): an RSS feed of events is turned into an ICS *)
(* calendar.  parse_event_datetime finds a date/time-range phrase in the   *)
(* plain text of an entry's summary and converts it into two timestamps in *)
(* the America/Montreal zone; generate_calendar runs it over every entry   *)
(* of the feed, counting processed and skipped entries, and saves the      *)
(* calendar; main uploads the file when generate_calendar succeeded.       *)
(*                                                                         *)
(* A text is a sequence of characters.  A character is a one-character     *)
(* string; the few non-ASCII code points the program meets are written by  *)
(* name: "ENDASH" (U+2013), "ACIRC" (U+00E2), "EURO" (U+20AC), "LDQUO"     *)
(* (U+201C), "NBSP" (U+00A0), and "LF" is the line feed.                   *)
(***************************************************************************)
EXTENDS Integers, Sequences, FiniteSets, TLC

VARIABLES
    pc,                \* position of the run: see Init, ParseInit and the actions
    rss_content,       \* what get_feed_content returned: "unset" before the call, "None",
                       \* "" (an empty body) or "xml" (a feed)
    entries,           \* feed.entries
    idx,               \* number of entries the for loop has taken
    events,            \* calendar.events, a set of Event objects
    nextUid,           \* number of Event objects constructed so far
    events_processed,
    events_skipped,
    log,               \* the records handed to logging, in order
    file,              \* OUTPUT_FILE: whether it was written, and the events in it in order
    ret,               \* what generate_calendar returned: "unset", "True", "False", or
                       \* "raised" when an exception left it
    uploaded,          \* main called upload_to_server
    inp,               \* SpecParse: the phrase parts the text was written from
    text,              \* SpecParse: the argument of parse_event_datetime
    result             \* SpecParse: what parse_event_datetime returned

vars == <<pc, rss_content, entries, idx, events, nextUid, events_processed,
          events_skipped, log, file, ret, uploaded, inp, text, result>>

(***************************************************************************)
(* Characters                                                              *)
(***************************************************************************)
UpperCase == <<"A","B","C","D","E","F","G","H","I","J","K","L","M",
               "N","O","P","Q","R","S","T","U","V","W","X","Y","Z">>
LowerCase == <<"a","b","c","d","e","f","g","h","i","j","k","l","m",
               "n","o","p","q","r","s","t","u","v","w","x","y","z">>

Range(s) == {s[i] : i \in 1..Len(s)}

\* [A-Za-z]
Alpha == Range(UpperCase) \cup Range(LowerCase)
\* \d
DigitChars == <<"0","1","2","3","4","5","6","7","8","9">>
Digit == Range(DigitChars)
\* \s (the whitespace characters of the model's alphabet)
Space == {" ", "LF", "NBSP"}
\* [â€“-] as the source file holds it: U+00E2, U+20AC, U+201C and the hyphen
DashClass == {"ACIRC", "EURO", "LDQUO", "-"}

\* str.upper() and str.lower() on one character
Upper(c) == IF \E i \in 1..26 : LowerCase[i] = c
            THEN UpperCase[CHOOSE i \in 1..26 : LowerCase[i] = c] ELSE c
Lower(c) == IF \E i \in 1..26 : UpperCase[i] = c
            THEN LowerCase[CHOOSE i \in 1..26 : UpperCase[i] = c] ELSE c
LowerStr(s) == [i \in 1..Len(s) |-> Lower(s[i])]

\* int() of a string of ASCII digits
DigitVal(c) == (CHOOSE i \in 1..10 : DigitChars[i] = c) - 1
RECURSIVE IntOf(_)
IntOf(s) == IF Len(s) = 0 THEN 0
            ELSE 10 * IntOf(SubSeq(s, 1, Len(s) - 1)) + DigitVal(s[Len(s)])

(***************************************************************************)
(* Regular expressions: a pattern is a sequence of items, matched by       *)
(* backtracking in the order Python's re tries the alternatives (a         *)
(* quantifier is greedy, an alternation is tried left to right).           *)
(***************************************************************************)
Between(cls, lo, hi) == [k |-> "rep", cls |-> cls, min |-> lo, max |-> hi, unbounded |-> FALSE]
One(cls)   == Between(cls, 1, 1)
Lit(c)     == One({c})
Plus(cls)  == [k |-> "rep", cls |-> cls, min |-> 1, max |-> 0, unbounded |-> TRUE]
Star(cls)  == [k |-> "rep", cls |-> cls, min |-> 0, max |-> 0, unbounded |-> TRUE]
Alt(alts)  == [k |-> "alt", alts |-> alts]
Opt(sub)   == Alt(<<sub, <<>>>>)
Open(g)    == [k |-> "open", g |-> g]
Close(g)   == [k |-> "close", g |-> g]
\* a literal under re.IGNORECASE
LitCI(s)   == [i \in 1..Len(s) |-> One({Lower(s[i]), Upper(s[i])})]

NoMatch == [ok |-> FALSE]

\* how many characters of txt after offset pos are in cls, at most limit
RECURSIVE RunLength(_, _, _, _)
RunLength(txt, pos, cls, limit) ==
    IF limit = 0 \/ pos >= Len(txt) THEN 0
    ELSE IF txt[pos + 1] \notin cls THEN 0
    ELSE 1 + RunLength(txt, pos + 1, cls, limit - 1)

RECURSIVE MatchHere(_, _, _, _), TryCount(_, _, _, _, _, _), TryAlts(_, _, _, _, _)
\* the match of pat at offset pos of txt, or NoMatch
MatchHere(txt, pat, pos, caps) ==
    IF Len(pat) = 0 THEN [ok |-> TRUE, end |-> pos, caps |-> caps]
    ELSE LET h == Head(pat)
             t == Tail(pat)
         IN  CASE h.k = "rep" ->
                    TryCount(txt, h, t, pos, caps,
                             RunLength(txt, pos, h.cls,
                                       IF h.unbounded THEN Len(txt) ELSE h.max))
               [] h.k = "alt" -> TryAlts(txt, h.alts, t, pos, caps)
               [] h.k = "open" ->
                    MatchHere(txt, t, pos, [caps EXCEPT ![h.g] = <<pos, pos>>])
               [] h.k = "close" ->
                    MatchHere(txt, t, pos, [caps EXCEPT ![h.g] = <<caps[h.g][1], pos>>])
\* greedy: the longest run first, then shorter ones
TryCount(txt, h, t, pos, caps, n) ==
    IF n < h.min THEN NoMatch
    ELSE LET r == MatchHere(txt, t, pos + n, caps)
         IN  IF r.ok THEN r ELSE TryCount(txt, h, t, pos, caps, n - 1)
TryAlts(txt, alts, t, pos, caps) ==
    IF Len(alts) = 0 THEN NoMatch
    ELSE LET r == MatchHere(txt, Head(alts) \o t, pos, caps)
         IN  IF r.ok THEN r ELSE TryAlts(txt, Tail(alts), t, pos, caps)

NoCaps(groups) == [g \in groups |-> <<0, 0>>]
Group(txt, m, g) == SubSeq(txt, m.caps[g][1] + 1, m.caps[g][2])

\* re.match: at the start of the text only
re_match(pat, groups, txt) == MatchHere(txt, pat, 0, NoCaps(groups))

\* re.search: the match at the leftmost offset that has one
RECURSIVE SearchFrom(_, _, _, _)
SearchFrom(pat, groups, txt, pos) ==
    IF pos > Len(txt) THEN NoMatch
    ELSE LET r == MatchHere(txt, pat, pos, NoCaps(groups))
         IN  IF r.ok THEN r ELSE SearchFrom(pat, groups, txt, pos + 1)
\* a search that goes on after each match and keeps the last one (the last item
\* of re.finditer)
RECURSIVE LastFrom(_, _, _, _, _)
LastFrom(pat, groups, txt, pos, best) ==
    LET r == SearchFrom(pat, groups, txt, pos)
    IN  IF ~r.ok \/ r.end <= pos THEN best
        ELSE LastFrom(pat, groups, txt, r.end, r)
re_search_last(pat, groups, txt) == LastFrom(pat, groups, txt, 0, NoMatch)
re_search(pat, groups, txt) == SearchFrom(pat, groups, txt, 0)

(***************************************************************************)
(* datetime.strptime(data, "%B %d, %Y %I:%M %p") as CPython's _strptime    *)
(* does it: the format becomes a regular expression (each directive its    *)
(* own group, each blank of the format \s+), compiled with IGNORECASE and  *)
(* matched at the start of data; the whole of data must be consumed; the   *)
(* groups are converted and datetime's constructor checks the ranges.      *)
(***************************************************************************)
MonthNames == <<
    <<"J","a","n","u","a","r","y">>,
    <<"F","e","b","r","u","a","r","y">>,
    <<"M","a","r","c","h">>,
    <<"A","p","r","i","l">>,
    <<"M","a","y">>,
    <<"J","u","n","e">>,
    <<"J","u","l","y">>,
    <<"A","u","g","u","s","t">>,
    <<"S","e","p","t","e","m","b","e","r">>,
    <<"O","c","t","o","b","e","r">>,
    <<"N","o","v","e","m","b","e","r">>,
    <<"D","e","c","e","m","b","e","r">>
>>
Digit19 == Digit \ {"0"}
StrpGroups == {"B", "d", "Y", "I", "M", "p"}
STRPTIME_RE ==
    << Open("B"), Alt([i \in 1..12 |-> LitCI(MonthNames[i])]), Close("B"),
       Plus(Space),
       Open("d"),
       Alt(<< <<Lit("3"), One({"0","1"})>>,
              <<One({"1","2"}), One(Digit)>>,
              <<Lit("0"), One(Digit19)>>,
              <<One(Digit19)>>,
              <<Lit(" "), One(Digit19)>> >>),
       Close("d"),
       Lit(","), Plus(Space),
       Open("Y"), Between(Digit, 4, 4), Close("Y"),
       Plus(Space),
       Open("I"),
       Alt(<< <<Lit("1"), One({"0","1","2"})>>,
              <<Lit("0"), One(Digit19)>>,
              <<One(Digit19)>> >>),
       Close("I"),
       Lit(":"),
       Open("M"),
       Alt(<< <<One({"0","1","2","3","4","5"}), One(Digit)>>,
              <<One(Digit)>> >>),
       Close("M"),
       Plus(Space),
       Open("p"), Alt(<<LitCI(<<"a","m">>), LitCI(<<"p","m">>)>>), Close("p") >>

IsLeap(y) == y % 4 = 0 /\ (y % 100 # 0 \/ y % 400 = 0)
DaysInMonth(y, m) ==
    IF m = 2 THEN (IF IsLeap(y) THEN 29 ELSE 28)
    ELSE IF m \in {4, 6, 9, 11} THEN 30 ELSE 31

\* a raised ValueError: what it is about, and the data string it quotes (if any)
ValueError(what, data) == [ok |-> FALSE, what |-> what, data |-> data]

\* the groups a match of the format found, converted; datetime checks the ranges
strptime_convert(data, m) ==
    IF ~m.ok THEN ValueError("does not match format", data)
    ELSE IF m.end # Len(data) THEN ValueError("unconverted data remains", data)
    ELSE
      LET B      == LowerStr(Group(data, m, "B"))
          month  == CHOOSE i \in 1..12 : LowerStr(MonthNames[i]) = B
          d      == Group(data, m, "d")
          day    == IntOf(IF d[1] = " " THEN Tail(d) ELSE d)
          year   == IntOf(Group(data, m, "Y"))
          hour12 == IntOf(Group(data, m, "I"))
          minute == IntOf(Group(data, m, "M"))
          ampm   == LowerStr(Group(data, m, "p"))
          hour   == IF ampm = <<"a","m">>
                    THEN (IF hour12 = 12 THEN 0 ELSE hour12)
                    ELSE (IF hour12 = 12 THEN 12 ELSE hour12 + 12)
      IN  IF year < 1 THEN ValueError("year is out of range", <<>>)
          ELSE IF day > DaysInMonth(year, month)
               THEN ValueError("day is out of range for month", <<>>)
          ELSE [ok |-> TRUE,
                dt |-> [type |-> "datetime", year |-> year, month |-> month, day |-> day,
                        hour |-> hour, minute |-> minute, tzinfo |-> "naive"]]

strptime(data) == strptime_convert(data, re_match(STRPTIME_RE, StrpGroups, data))

(***************************************************************************)
(* parse_event_datetime                                                    *)
(***************************************************************************)
\* Python values carry their type: None, and a datetime (see strptime)
None == [type |-> "NoneType"]
IsNone(v) == v.type = "NoneType"
MontrealTz == "America/Montreal"

\* [ap] of the pattern, with re.IGNORECASE
MeridiemAnyCase == {"a", "p", "A", "P"}
\* ([ap]): the pattern is compiled without flags
MeridiemClass == {"a", "p"}

\* (\d{1,2}(?::\d{2})?)
TimeItems == <<Between(Digit, 1, 2), Opt(<<Lit(":"), Between(Digit, 2, 2)>>)>>
\* the pattern of re.search
EVENT_RE ==
    << Open(1), Plus(Alpha), Lit(" "), Between(Digit, 1, 2), Lit(","), Lit(" "),
       Between(Digit, 4, 4), Close(1), Lit(","), Star(Space) >>
    \o <<Open(2)>> \o TimeItems \o <<Close(2)>>
    \o << Star(Space), Open(3), One(MeridiemClass), Close(3),
          Lit("."), Lit("m"), Lit("."), Star(Space), One(DashClass), Star(Space) >>
    \o <<Open(4)>> \o TimeItems \o <<Close(4)>>
    \o << Star(Space), Open(5), One(MeridiemClass), Close(5),
          Lit("."), Lit("m"), Lit(".") >>

\* the minutes are left as written
KeepTime(t) == t
\* if ':' not in t: t += ':00'
AddMinutes(t) == IF ":" \in Range(t) THEN t ELSE t \o <<":", "0", "0">>

\* what a call gives its caller: the returned pair, or an exception that left the
\* function, and the records it logged
Returned(s, e, logs) == [start |-> s, end |-> e, raised |-> FALSE, logs |-> logs]
Raised(exc, logs) == [start |-> None, end |-> None, raised |-> TRUE, exc |-> exc, logs |-> logs]

\* a function without the except clause: the ValueError leaves it
propagate_ValueError(e) == Raised(e, <<>>)
\* except ValueError as e: log a warning, return None, None
except_ValueError(e) ==
    Returned(None, None,
             <<[level |-> "WARNING", msg |-> "Error parsing datetime", title |-> "",
                detail |-> e]>>)

\* the try block: both strptime calls, then the timezone attached to both
try_strptime(start_dt, end_dt) ==
    IF ~start_dt.ok THEN except_ValueError(start_dt)
    ELSE IF ~end_dt.ok THEN except_ValueError(end_dt)
    ELSE Returned([start_dt.dt EXCEPT !.tzinfo = MontrealTz],
                  [end_dt.dt EXCEPT !.tzinfo = MontrealTz], <<>>)

\* start_str and end_str from the groups (the times with their minutes added)
parse_groups(date_str, start_time, start_ampm, end_time, end_ampm) ==
    try_strptime(
        strptime(date_str \o <<" ">> \o start_time \o <<" ">> \o <<Upper(start_ampm[1]), "M">>),
        strptime(date_str \o <<" ">> \o end_time \o <<" ">> \o <<Upper(end_ampm[1]), "M">>))

\* the function after re.search
parse_match(txt, match) ==
    IF ~match.ok THEN Returned(None, None, <<>>)
    ELSE parse_groups(Group(txt, match, 1),
                      AddMinutes(Group(txt, match, 2)), Group(txt, match, 3),
                      AddMinutes(Group(txt, match, 4)), Group(txt, match, 5))

parse_event_datetime(txt) == parse_match(txt, re_search(EVENT_RE, 1..5, txt))

(***************************************************************************)
(* The texts parse_event_datetime is applied to: a phrase written from its *)
(* parts (month word, day, year, times, meridiem letters, separator,       *)
(* whitespace), with text before and after it.                             *)
(***************************************************************************)
MaxDay == 32
MaxHour == 13
MaxMinute == 60

Dec2(n) == <<DigitChars[((n \div 10) % 10) + 1], DigitChars[(n % 10) + 1]>>
Dec(n) == IF n < 10 THEN <<DigitChars[n + 1]>> ELSE Dec2(n)
Dec4(n) == Dec2(n \div 100) \o Dec2(n % 100)

\* a time as written: the hour, and the minutes unless omitted (m < 0)
TimeText(h, m) == Dec(h) \o (IF m < 0 THEN <<>> ELSE <<":">> \o Dec2(m))

PhraseText(p) ==
    p.month \o <<" ">> \o (IF p.dpad THEN Dec2(p.day) ELSE Dec(p.day)) \o <<",", " ">>
    \o Dec4(p.year) \o <<",">> \o p.ws
    \o TimeText(p.h1, p.m1) \o p.ws \o <<p.ap1, ".", "m", ".">>
    \o p.ws \o p.sep \o p.ws
    \o TimeText(p.h2, p.m2) \o p.ws \o <<p.ap2, ".", "m", ".">>

InputText(i) == i.lead \o PhraseText(i.ph) \o i.tail

Hyphen   == <<"-">>
EnDash   == <<"ENDASH">>
\* the UTF-8 bytes of U+2013 read as cp1252
Mojibake == <<"ACIRC", "EURO", "LDQUO">>

June == MonthNames[6]
\* "June 19, 2025, 4 p.m. - 6 p.m."
BasePhrase ==
    [month |-> June, day |-> 19, dpad |-> FALSE, year |-> 2025, ws |-> <<" ">>,
     h1 |-> 4, m1 |-> 0 - 1, ap1 |-> "p", sep |-> Hyphen,
     h2 |-> 6, m2 |-> 0 - 1, ap2 |-> "p"]
\* "June 19, 2025, 4:30 p.m. - 6:15 p.m."
MinutesPhrase == [BasePhrase EXCEPT !.m1 = 30, !.m2 = 15]
\* "June 32, 2025, 4 p.m. - 6 p.m."
BadDayPhrase == [BasePhrase EXCEPT !.day = 32]
\* "July 01, 2026, 9:05 a.m. - 11 a.m."
OtherPhrase ==
    [BasePhrase EXCEPT !.month = MonthNames[7], !.day = 1, !.dpad = TRUE, !.year = 2026,
                       !.h1 = 9, !.m1 = 5, !.ap1 = "a", !.h2 = 11, !.ap2 = "a"]

MonthWords ==
    Range(MonthNames) \cup
    { <<"F","e","b">>, <<"j","u","n","e">>, <<"J","U","N","E">>, <<"J","u","n","k">> }
Years == {0, 1900, 2024, 2025}
Minutes == {0 - 1, 0, 7, 59, MaxMinute}
Sides == { <<6, 0 - 1, "p">>, <<11, 45, "a">>, <<13, 0, "p">> }
Whitespaces == { <<" ">>, <<>>, <<"NBSP">>, <<" ", "LF">> }
Separators ==
    { Hyphen, EnDash, Mojibake, <<"ACIRC">>, <<"EURO">>, <<"LDQUO">>, <<>>,
      <<"t","o">>, <<"-","-">> }
Letters == { <<"p","p">>, <<"P","P">>, <<"a","p">>, <<"A","p">>, <<"p","P">> }
Leads == { <<>>, <<"O","n"," ">>, <<"i","n">>, <<"2"," ">> }

Alone(p) == [lead |-> <<>>, ph |-> p, tail |-> <<>>]

DatePhrases ==
    { [BasePhrase EXCEPT !.month = mo, !.day = d, !.dpad = dp, !.year = y] :
        mo \in MonthWords, d \in 0..MaxDay, dp \in BOOLEAN, y \in Years }
TimePhrases ==
    { [BasePhrase EXCEPT !.h1 = h, !.m1 = m, !.ap1 = ap,
                         !.h2 = o[1], !.m2 = o[2], !.ap2 = o[3]] :
        h \in 0..MaxHour, m \in Minutes, ap \in {"a", "p"}, o \in Sides }
    \cup
    { [BasePhrase EXCEPT !.h2 = h, !.m2 = m, !.ap2 = ap,
                         !.h1 = o[1], !.m1 = o[2], !.ap1 = o[3]] :
        h \in 0..MaxHour, m \in Minutes, ap \in {"a", "p"}, o \in Sides }
SeparatorPhrases ==
    { [b EXCEPT !.sep = sp, !.ws = w, !.ap1 = l[1], !.ap2 = l[2]] :
        b \in {BasePhrase, MinutesPhrase, BadDayPhrase},
        sp \in Separators, w \in Whitespaces, l \in Letters }
ContextInputs ==
    { [lead |-> ld, ph |-> p, tail |-> tl] :
        ld \in Leads,
        p \in { BasePhrase, BadDayPhrase, [BasePhrase EXCEPT !.sep = EnDash],
                [BasePhrase EXCEPT !.ap1 = "P"] },
        tl \in { <<>>, <<" ">> \o PhraseText(OtherPhrase),
                 <<" ">> \o PhraseText([OtherPhrase EXCEPT !.h1 = 0]),
                 <<" ", "o", "r", " ", "s", "o">> } }

Inputs ==
    { Alone(p) : p \in { q \in DatePhrases : q.dpad => q.day < 10 } }
    \cup { Alone(p) : p \in TimePhrases }
    \cup { Alone(p) : p \in SeparatorPhrases }
    \cup ContextInputs

(***************************************************************************)
(* The feed: feedparser gives each entry the attributes its item has in    *)
(* the feed; reading an attribute the entry lacks raises AttributeError.   *)
(* A summary is a sequence of characters, tags and character references.   *)
(***************************************************************************)
Tags == {"<p>", "</p>", "<b>", "</b>"}
CharRefs == {"&ndash;", "&nbsp;"}
Decoded(ref) == IF ref = "&ndash;" THEN "ENDASH" ELSE "NBSP"

\* BeautifulSoup(html, 'html.parser').get_text(): the text nodes in document order,
\* character references decoded
RECURSIVE get_text(_)
get_text(html) ==
    IF Len(html) = 0 THEN <<>>
    ELSE (IF Head(html) \in Tags THEN <<>>
          ELSE IF Head(html) \in CharRefs THEN <<Decoded(Head(html))>>
          ELSE <<Head(html)>>) \o get_text(Tail(html))

HasAttr(entry, a) == a \in entry.attrs
AllAttrs == {"title", "link", "summary"}

BaseHtml == <<"<p>">> \o PhraseText(BasePhrase) \o <<"</p>">>
\* "July 01, 2026, <b>9:05 a.m.</b> - 11 a.m."
OtherHtml ==
    LET t == PhraseText(OtherPhrase)
    IN  SubSeq(t, 1, 15) \o <<"<b>">> \o SubSeq(t, 16, 24) \o <<"</b>">>
        \o SubSeq(t, 25, Len(t))
\* "June 19, 2025, 4 p.m.&nbsp;&ndash;&nbsp;6 p.m."
NdashHtml ==
    PhraseText([BasePhrase EXCEPT !.ws = <<>>, !.sep = <<"&nbsp;", "&ndash;", "&nbsp;">>])

SampleEntries ==
    { [attrs |-> AllAttrs, title |-> "Talk", link |-> "L1", summary |-> BaseHtml],
      [attrs |-> AllAttrs, title |-> "Workshop", link |-> "L2", summary |-> OtherHtml],
      [attrs |-> AllAttrs, title |-> "Notice", link |-> "L3",
       summary |-> <<"<p>", "T", "B", "A", "</p>">>],
      [attrs |-> AllAttrs, title |-> "Gala", link |-> "L4",
       summary |-> PhraseText(BadDayPhrase)],
      [attrs |-> AllAttrs, title |-> "Panel", link |-> "L5", summary |-> NdashHtml],
      [attrs |-> {"title", "summary"}, title |-> "Tour", link |-> "", summary |-> BaseHtml],
      [attrs |-> {"link", "summary"}, title |-> "", link |-> "L7", summary |-> BaseHtml],
      [attrs |-> {"title", "link"}, title |-> "Memo", link |-> "L8", summary |-> <<>>] }

MaxEntries == 3
Batches == UNION { [1..n -> SampleEntries] : n \in 0..MaxEntries }

(***************************************************************************)
(* generate_calendar: one pass of the loop body                            *)
(***************************************************************************)
LogRecord(level, msg, title, exc) ==
    [level |-> level, msg |-> msg, title |-> title, detail |-> exc]
NoExc == [ok |-> TRUE, what |-> "", data |-> <<>>]
AttributeError(a) == [ok |-> FALSE, what |-> "object has no attribute", data |-> <<a>>]

\* Event() with name, description, url, begin and end set; every Event gets a uid of
\* its own (a fresh uuid4), and Event equality and hashing go by the uid
Event(uid, entry, txt, start_dt, end_dt) ==
    [uid |-> uid, name |-> entry.title, description |-> txt, url |-> entry.link,
     begin |-> start_dt, end |-> end_dt]
Content(ev) == [name |-> ev.name, description |-> ev.description, url |-> ev.url,
                begin |-> ev.begin, end |-> ev.end]

\* a collection that keeps one event per content
events_add_dedup(evs, ev) ==
    IF \E o \in evs : Content(o) = Content(ev) THEN evs ELSE evs \cup {ev}
\* calendar.events.add(event): calendar.events is a set
events_add(evs, ev) == evs \cup {ev}

\* what one pass does to the run
Outcome(evs, made, processed, skipped, escaped, logs) ==
    [events |-> evs, made |-> made, processed |-> processed, skipped |-> skipped,
     escaped |-> escaped, logs |-> logs]

\* a handler that leaves the counter alone
except_Exception_uncounted(entry, e, evs, made, logs) ==
    IF ~HasAttr(entry, "title")
    THEN Outcome(evs, made, 0, 0, TRUE, logs)
    ELSE Outcome(evs, made, 0, 0, FALSE,
                 logs \o <<LogRecord("ERROR", "Error processing entry", entry.title, e)>>)
\* except Exception as e: the message reads entry.title, then the entry is counted
except_Exception(entry, e, evs, made, logs) ==
    IF ~HasAttr(entry, "title")
    THEN Outcome(evs, made, 0, 0, TRUE, logs)
    ELSE Outcome(evs, made, 0, 1, FALSE,
                 logs \o <<LogRecord("ERROR", "Error processing entry", entry.title, e)>>)

\* the entry is counted and nothing is logged
skip_silently(entry, evs, made, logs) ==
    IF ~HasAttr(entry, "title")
    THEN except_Exception(entry, AttributeError("title"), evs, made, logs)
    ELSE Outcome(evs, made, 0, 1, FALSE, logs)
\* if not start_dt or not end_dt: warning, events_skipped += 1, continue
skip_unparseable(entry, evs, made, logs) ==
    IF ~HasAttr(entry, "title")
    THEN except_Exception(entry, AttributeError("title"), evs, made, logs)
    ELSE Outcome(evs, made, 0, 1, FALSE,
                 logs \o <<LogRecord("WARNING", "Skipping event with unparseable date",
                                      entry.title, NoExc)>>)

\* the loop body after parse_event_datetime returned r
process_parsed(entry, evs, uid, txt, r) ==
    IF r.raised THEN except_Exception(entry, r.exc, evs, 0, r.logs)
    ELSE IF IsNone(r.start) \/ IsNone(r.end)
         THEN skip_unparseable(entry, evs, 0, r.logs)
    ELSE IF ~HasAttr(entry, "title")
         THEN except_Exception(entry, AttributeError("title"), evs, 1, r.logs)
    ELSE IF ~HasAttr(entry, "link")
         THEN except_Exception(entry, AttributeError("link"), evs, 1, r.logs)
    ELSE Outcome(events_add(evs, Event(uid, entry, txt, r.start, r.end)),
                 1, 1, 0, FALSE, r.logs)

\* the loop body after the text was extracted
process_text(entry, evs, uid, txt) ==
    process_parsed(entry, evs, uid, txt, parse_event_datetime(txt))

\* the body of the for loop, for one entry, with uid the next Event's uid
process_entry(entry, evs, uid) ==
    IF ~HasAttr(entry, "summary")
    THEN except_Exception(entry, AttributeError("summary"), evs, 0, <<>>)
    ELSE process_text(entry, evs, uid, get_text(entry.summary))

(***************************************************************************)
(* The run of main                                                         *)
(***************************************************************************)
NotCalled == [called |-> FALSE]
NoFile == [written |-> FALSE, events |-> <<>>]
NoInput == Alone(BasePhrase)

\* the orders in which a set can be iterated
Orders(S) == { s \in [1..Cardinality(S) -> S] : Range(s) = S }

Init ==
    /\ pc = "main"
    /\ rss_content = "unset"
    /\ entries = <<>>
    /\ idx = 0
    /\ events = {}
    /\ nextUid = 0
    /\ events_processed = 0
    /\ events_skipped = 0
    /\ log = <<>>
    /\ file = NoFile
    /\ ret = "unset"
    /\ uploaded = FALSE
    /\ inp = NoInput
    /\ text = <<>>
    /\ result = NotCalled

\* main calls generate_calendar: get_feed_content, the check of its result,
\* feedparser.parse and the empty calendar
FetchFeed ==
    /\ pc = "main"
    /\ \E got \in {"None", "", "xml"} :
         /\ rss_content' = got
         /\ IF got \in {"None", ""}
            THEN /\ log' = log
                      \o <<LogRecord("INFO", "Starting calendar update process", "", NoExc),
                           IF got = "None"
                           THEN LogRecord("ERROR", "Error downloading RSS", "", NoExc)
                           ELSE LogRecord("INFO", "Successfully downloaded RSS feed", "", NoExc),
                           LogRecord("ERROR", "Failed to download RSS content", "", NoExc)>>
                 /\ ret' = "False"
                 /\ pc' = "returned"
                 /\ entries' = entries
            ELSE /\ \E es \in Batches : entries' = es
                 /\ log' = log
                      \o <<LogRecord("INFO", "Starting calendar update process", "", NoExc),
                           LogRecord("INFO", "Successfully downloaded RSS feed", "", NoExc),
                           LogRecord("INFO", "Feed parsed", "", NoExc)>>
                 /\ ret' = ret
                 /\ pc' = "loop"
    /\ idx' = 0
    /\ events' = {}
    /\ events_processed' = 0
    /\ events_skipped' = 0
    /\ UNCHANGED <<nextUid, file, uploaded, inp, text, result>>

\* what a pass with outcome o leaves: an exception that escaped the handler
\* leaves generate_calendar and main
LoopStep(o) ==
    /\ events' = o.events
    /\ nextUid' = nextUid + o.made
    /\ events_processed' = events_processed + o.processed
    /\ events_skipped' = events_skipped + o.skipped
    /\ log' = log \o o.logs
    /\ IF o.escaped
       THEN /\ pc' = "crashed"
            /\ ret' = "raised"
            /\ idx' = idx
       ELSE /\ pc' = "loop"
            /\ ret' = ret
            /\ idx' = idx + 1

\* one pass of "for entry in feed.entries"
ProcessEntry ==
    /\ pc = "loop"
    /\ idx < Len(entries)
    /\ LoopStep(process_entry(entries[idx + 1], events, nextUid + 1))
    /\ UNCHANGED <<rss_content, entries, file, uploaded, inp, text, result>>

\* a failed save that is reported as a success
save_result_always_true(ok) == "True"
\* return True after the file is written, False from the except clause
save_result(ok) == IF ok THEN "True" ELSE "False"

\* the loop is over: the calendar is written to OUTPUT_FILE, in the order the set
\* of events is iterated; opening or writing the file may fail
SaveCalendar ==
    /\ pc = "loop"
    /\ idx = Len(entries)
    /\ \E ok \in BOOLEAN :
         /\ IF ok
            THEN /\ \E order \in Orders(events) :
                      file' = [written |-> TRUE, events |-> order]
                 /\ log' = Append(log, LogRecord("INFO", "Calendar saved", "", NoExc))
            ELSE /\ file' = file
                 /\ log' = Append(log, LogRecord("ERROR", "Error saving calendar", "", NoExc))
         /\ ret' = save_result(ok)
    /\ pc' = "returned"
    /\ UNCHANGED <<rss_content, entries, idx, events, nextUid, events_processed,
                   events_skipped, uploaded, inp, text, result>>

\* main, after generate_calendar returned
MainFinish ==
    /\ pc = "returned"
    /\ IF ret = "True"
       THEN /\ uploaded' = TRUE
            /\ log' = log
                 \o <<LogRecord("INFO", "Upload function not configured", "", NoExc),
                      LogRecord("INFO", "Calendar update completed successfully", "", NoExc)>>
       ELSE /\ uploaded' = uploaded
            /\ log' = Append(log, LogRecord("ERROR", "Calendar update failed", "", NoExc))
    /\ pc' = "done"
    /\ UNCHANGED <<rss_content, entries, idx, events, nextUid, events_processed,
                   events_skipped, file, ret, inp, text, result>>

Next == FetchFeed \/ ProcessEntry \/ SaveCalendar \/ MainFinish

Spec == Init /\ [][Next]_vars

(***************************************************************************)
(* SpecParse: parse_event_datetime applied to one text.                    *)
(***************************************************************************)
ParseInit ==
    /\ pc = "parse_call"
    /\ inp \in Inputs
    /\ text = InputText(inp)
    /\ result = NotCalled
    /\ log = <<>>
    /\ rss_content = "unset"
    /\ entries = <<>>
    /\ idx = 0
    /\ events = {}
    /\ nextUid = 0
    /\ events_processed = 0
    /\ events_skipped = 0
    /\ file = NoFile
    /\ ret = "unset"
    /\ uploaded = FALSE

CallParse ==
    /\ pc = "parse_call"
    /\ result' = parse_event_datetime(text)
    /\ log' = log \o result'.logs
    /\ pc' = "parse_done"
    /\ UNCHANGED <<rss_content, entries, idx, events, nextUid, events_processed,
                   events_skipped, file, ret, uploaded, inp, text>>

ParseNext == CallParse

SpecParse == ParseInit /\ [][ParseNext]_vars

(***************************************************************************)
(* What the batch loop is expected to do, entry by entry                   *)
(***************************************************************************)
LoopOver ==
    /\ rss_content = "xml"
    /\ \/ pc = "loop" /\ idx = Len(entries)
       \/ pc \in {"returned", "done"}

ParseOf(e) == parse_event_datetime(get_text(e.summary))
\* the entry yields no parse result
NoParseResult(e) == ~HasAttr(e, "summary") \/ IsNone(ParseOf(e).start)
\* the entry is turned into an event: it parses and has all it takes to build one
Survives(e) == e.attrs = AllAttrs /\ ~NoParseResult(e)
ExpectedContent(e) ==
    [name |-> e.title, description |-> get_text(e.summary), url |-> e.link,
     begin |-> ParseOf(e).start, end |-> ParseOf(e).end]
RECURSIVE Survivors(_)
Survivors(es) ==
    IF Len(es) = 0 THEN <<>>
    ELSE (IF Survives(Head(es)) THEN <<ExpectedContent(Head(es))>> ELSE <<>>)
         \o Survivors(Tail(es))
Taken == 1..idx
NumberOf(S) == Cardinality(S)
LoopMessages == {"Skipping event with unparseable date", "Error processing entry"}

\* C1 as claimed: with N entries of which K yield no parse result, once the loop is
\* over the collection holds N-K events, events_processed = N-K, events_skipped = K
C1_Original ==
    LoopOver =>
      LET N == Len(entries)
          K == NumberOf({i \in 1..N : NoParseResult(entries[i])})
      IN  /\ Cardinality(events) = N - K
          /\ events_processed = N - K
          /\ events_skipped = K

\* C1 as amended: with N entries of which K are skipped, for want of a parse result
\* or because building the event raised, once the loop is over the collection holds
\* N-K events, events_processed = N-K and events_skipped = K
C1_Counts ==
    LoopOver =>
      LET N == Len(entries)
          K == NumberOf({i \in 1..N : ~Survives(entries[i])})
      IN  /\ Cardinality(events) = N - K
          /\ events_processed = N - K
          /\ events_skipped = K
          /\ events_processed + events_skipped = N

C1_Witness ==
    /\ LoopOver
    /\ Len(entries) = 3
    /\ events_processed = 1
    /\ events_skipped = 2
    /\ \E i \in 1..3 : ~NoParseResult(entries[i]) /\ ~Survives(entries[i])
    /\ \E i \in 1..3 : NoParseResult(entries[i])

C3_NoEscape ==
    /\ pc # "crashed"
    /\ ret # "raised"
    /\ rss_content = "xml" => events_processed + events_skipped = idx

\* a record of the loop about entry e
AboutEntry(rec, e) == rec.msg \in LoopMessages /\ rec.title = e.title
\* a record that shows the text of entry e, as in the feed or as extracted
ShowsText(rec, e) == rec.detail.data \in {e.summary, get_text(e.summary)}

\* C8 as claimed: for every skipped entry a record is logged that identifies both
\* the entry's title and its raw text
C8_Original ==
    rss_content = "xml" =>
      \A i \in Taken : (~Survives(entries[i]) /\ HasAttr(entries[i], "summary")) =>
         \E k \in 1..Len(log) : AboutEntry(log[k], entries[i]) /\ ShowsText(log[k], entries[i])

\* C8 as amended: for every skipped entry the loop logs one record that identifies
\* the entry's title (the raw text is not logged): the loop's records are as many as
\* events_skipped, and each skipped entry has one with its title
C8_TitleLogged ==
    rss_content = "xml" =>
      /\ NumberOf({k \in 1..Len(log) : log[k].msg \in LoopMessages}) = events_skipped
      /\ \A i \in Taken : ~Survives(entries[i]) =>
            \E k \in 1..Len(log) : AboutEntry(log[k], entries[i])

C8_Witness ==
    /\ pc = "loop"
    /\ idx = 2
    /\ events_skipped = 2
    /\ log[Len(log)].msg = "Skipping event with unparseable date"
    /\ log[Len(log)].title = "Notice"
    /\ \E k \in 1..Len(log) : log[k].msg = "Error processing entry" /\ log[k].title = "Tour"

\* C9 as claimed: generate_calendar returns False only when the feed could not be
\* downloaded or the input was empty; in every other run it returns True
C9_Original ==
    pc \in {"returned", "done"} =>
      /\ ret \in {"True", "False"}
      /\ ret = "False" <=> rss_content \in {"None", ""}

\* C9 as amended: generate_calendar returns False when the feed could not be
\* downloaded or its content was empty, and also when writing the output file
\* failed; whenever it returns otherwise it returns True; main calls
\* upload_to_server exactly when it returned True
C9_FalseOnSaveFailureToo ==
    /\ pc \in {"returned", "done"} =>
         /\ ret \in {"True", "False"}
         /\ ret = "False" <=> (rss_content \in {"None", ""} \/ ~file.written)
    /\ uploaded => ret = "True"
    /\ pc = "done" => (uploaded <=> ret = "True")

C9_Witness ==
    /\ pc = "done"
    /\ rss_content = "xml"
    /\ Len(entries) = 2
    /\ events_processed = 2
    /\ ~file.written
    /\ ret = "False"
    /\ ~uploaded

(***************************************************************************)
(* What parse_event_datetime is expected to return                         *)
(***************************************************************************)
Parsed == pc = "parse_done"
Pair(r) == <<r.start, r.end>>
NoResult(r) == ~r.raised /\ IsNone(r.start) /\ IsNone(r.end)

IsMonthName(w) == \E i \in 1..12 : LowerStr(MonthNames[i]) = LowerStr(w)
MonthNumber(w) == CHOOSE i \in 1..12 : LowerStr(MonthNames[i]) = LowerStr(w)
ValidTime(h, m) == h \in 1..12 /\ m < 60
\* the parts of the phrase are calendar values
ValidValues(p) ==
    /\ IsMonthName(p.month)
    /\ p.year >= 1
    /\ p.day >= 1
    /\ p.day <= DaysInMonth(p.year, MonthNumber(p.month))
    /\ ValidTime(p.h1, p.m1)
    /\ ValidTime(p.h2, p.m2)
\* the 12-hour clock: 12 a.m. is 0 h, 12 p.m. is 12 h
Clock24(h, ap) == (h % 12) + (IF ap = "p" THEN 12 ELSE 0)
Timestamp(p, h, m, ap) ==
    [type |-> "datetime", year |-> p.year, month |-> MonthNumber(p.month), day |-> p.day,
     hour |-> Clock24(h, ap), minute |-> IF m < 0 THEN 0 ELSE m, tzinfo |-> MontrealTz]
\* a well-formed phrase, written with a hyphen and lowercase meridiem letters, that
\* no letter precedes
WellFormed(i) ==
    /\ ValidValues(i.ph)
    /\ i.ph.sep = Hyphen
    /\ i.ph.ap1 \in {"a", "p"}
    /\ i.ph.ap2 \in {"a", "p"}
    /\ (Len(i.lead) = 0 \/ i.lead[Len(i.lead)] \notin Alpha)

WithSeparator(i, sp) == [i EXCEPT !.ph.sep = sp]
WithLetters(i, l1, l2) == [i EXCEPT !.ph.ap1 = l1, !.ph.ap2 = l2]

\* C4 as claimed: a hyphen, a literal en-dash and the mis-decoded en-dash between
\* the two times give the same (start, end) for an otherwise identical phrase
C4_SeparatorsEquivalent ==
    (Parsed /\ inp.ph.sep \in {Hyphen, EnDash, Mojibake}) =>
      \A sp \in {Hyphen, EnDash, Mojibake} :
         Pair(result) = Pair(parse_event_datetime(InputText(WithSeparator(inp, sp))))

\* C5 as claimed: a phrase written with an uppercase meridiem letter yields the same
\* (start, end) as the phrase written with the lowercase letter
C5_Original ==
    Parsed =>
      Pair(result) = Pair(parse_event_datetime(
                            InputText(WithLetters(inp, Lower(inp.ph.ap1), Lower(inp.ph.ap2)))))

\* C5 as amended: the meridiem letter is matched as written: only lowercase a or p
\* is recognised, and a phrase in which either meridiem letter is uppercase is not
\* recognised: for a text holding only that phrase the result is (None, None)
C5_LowercaseOnly ==
    (Parsed /\ Len(inp.tail) = 0 /\ (inp.ph.ap1 \in {"A", "P"} \/ inp.ph.ap2 \in {"A", "P"}))
      => NoResult(result)

C5_Witness ==
    /\ Parsed
    /\ inp = Alone([BasePhrase EXCEPT !.ap1 = "P", !.ap2 = "P"])
    /\ NoResult(result)
    /\ ~NoResult(parse_event_datetime(InputText(Alone(BasePhrase))))

\* C6: for a well-formed phrase the result is a pair of timestamps, both in the
\* America/Montreal zone and on the date written, each at the 12-hour-clock
\* conversion of the written time, with minute 00 when the minutes are omitted
C6_WellFormedPhrase ==
    (Parsed /\ WellFormed(inp)) =>
      /\ ~result.raised
      /\ result.start = Timestamp(inp.ph, inp.ph.h1, inp.ph.m1, inp.ph.ap1)
      /\ result.end = Timestamp(inp.ph, inp.ph.h2, inp.ph.m2, inp.ph.ap2)

C6_Witness ==
    /\ Parsed
    /\ inp = Alone(BasePhrase)
    /\ result.start.hour = 16 /\ result.start.minute = 0
    /\ result.end.hour = 18 /\ result.end.minute = 0
    /\ result.start.tzinfo = MontrealTz /\ result.end.tzinfo = MontrealTz
    /\ <<result.start.year, result.start.month, result.start.day>> = <<2025, 6, 19>>

\* C7: parse_event_datetime never raises; a text without a phrase of the grammar,
\* and a phrase whose parts are not calendar values, give (None, None)
C7_NeverRaises ==
    Parsed =>
      /\ ~result.raised
      /\ (Len(inp.tail) = 0 /\ (~ValidValues(inp.ph) \/ inp.ph.sep \in {<<>>, <<"t","o">>, <<"-","-">>}))
           => NoResult(result)

C7_Witness ==
    /\ Parsed
    /\ inp = Alone(BadDayPhrase)
    /\ NoResult(result)
    /\ Len(log) = 1
    /\ log[1].level = "WARNING"

\* the text up to the end of its first phrase
UpToFirstPhrase(i) == i.lead \o PhraseText(i.ph)
FirstPhraseMatches(i) == re_search(EVENT_RE, 1..5, UpToFirstPhrase(i)).ok

\* C10: the result is that of the first match alone: what follows the first match
\* never changes it, and when the first match is not made of calendar values the
\* result is (None, None) whatever follows
C10_FirstMatchOnly ==
    (Parsed /\ FirstPhraseMatches(inp)) =>
      /\ Pair(result) = Pair(parse_event_datetime(UpToFirstPhrase(inp)))
      /\ ~ValidValues(inp.ph) => NoResult(result)

C10_Witness ==
    /\ Parsed
    /\ inp.ph = BadDayPhrase
    /\ inp.tail = <<" ">> \o PhraseText(OtherPhrase)
    /\ ~NoResult(parse_event_datetime(PhraseText(OtherPhrase)))
    /\ NoResult(result)

====
